---- MODULE Spec2Model ----
(***************************************************************************)
(* Model of the Yahoo fantasy assistant: the API client adapter            *)
(* (app/yahoo_client.py: error decoding, _retry, the accessors, the        *)
(* settings cache, available_players) and the heuristic scorers            *)
(* (app/brains/rules.py, app/brains/draft.py).                             *)
(*                                                                         *)
(* Units.  Seconds of sleep are kept as integers: base_sleep and max_sleep *)
(* in tenths of a second, the jitter factor in tenths, a sleep in          *)
(* hundredths of a second (tenths * tenths).  Projections and scores are   *)
(* kept in tenths of a point.                                              *)
(*                                                                         *)
(* Texts.  An error text is a sequence of tokens; the Python string is the *)
(* concatenation of the tokens.  "b'" and "'" are the delimiters of the    *)
(* repr of a bytes object, "\\n" is the two-character escape that          *)
(* unicode_escape turns into the newline "\n".                             *)
(***************************************************************************)
EXTENDS Integers, Sequences, FiniteSets, TLC

\* ------------------------------------------------------------------ bounds
MaxTries == 7
MaxClock == 2
MaxFeatures == 3
MaxSlotCount == 2
MaxPool == 4
MaxPayload == 2
MaxPick == 6
MaxRuns == 5
MaxCliCalls == 2
MaxArgs == 2
MaxDraftRuns == 1

\* ------------------------------------------------------- program constants
DefaultTries == 6
DefaultBaseSleep == 6
DefaultMaxSleep == 80
JitterLo == 7
JitterHi == 13
DefaultTtl == 180
TierDrop == 18

\* ------------------------------------------------------------ small helpers
Min(a, b) == IF a < b THEN a ELSE b
Max(a, b) == IF a > b THEN a ELSE b

RECURSIVE Pow2(_)
Pow2(n) == IF n = 0 THEN 1 ELSE 2 * Pow2(n - 1)

Range(s) == {s[k] : k \in 1..Len(s)}

\* Python's None where a token is expected.
None == "None"

\* ---------------------------------------------------------------- texts
JOpen == "{\"error\":{"
JClose == "}}"
KDesc == "\"description\":"
KYUri == "\"yahoo:uri\":"
KUri == "\"uri\":"
KDetail == "\"detail\":"

\* str(e) of the failures the API is driven with.
TxtAuth == <<"401", " ", "Not authorized">>
TxtGrantBytes == <<"b'", "invalid_grant", "'">>
TxtTemp == <<"Temporary problem", " ", "with Yahoo">>
TxtBoom == <<"boom">>
TxtBoomBytesNl == <<"b'", "kaput", "\\n", "'">>
TxtJsonTemp == <<JOpen, KDesc, "Please try again shortly", KYUri, "/league/settings", KDetail, "999", JClose>>
TxtJsonBytes == <<"b'", JOpen, KDesc, "Invalid league key", KUri, "/league/teams", JClose, "\\n", "'">>
TxtJsonNoDesc == <<JOpen, KDetail, "no description", JClose>>
TxtJsonList == <<"[]">>
TxtJsonEmpty == <<"{}">>

ErrTexts == {TxtAuth, TxtGrantBytes, TxtTemp, TxtBoom, TxtBoomBytesNl, TxtJsonTemp,
             TxtJsonBytes, TxtJsonNoDesc, TxtJsonList, TxtJsonEmpty}

\* `s in msg` for the markers the code looks for: a marker is one token.
Contains(msg, s) == \E k \in 1..Len(msg) : msg[k] = s

\* str.lower() on a token.
LowerTok(t) ==
    CASE t = "Temporary problem" -> "temporary problem"
      [] t = "Please try again shortly" -> "please try again shortly"
      [] t = "Not authorized" -> "not authorized"
      [] t = "Invalid league key" -> "invalid league key"
      [] t = "with Yahoo" -> "with yahoo"
      [] t = "Al" -> "al"
      [] t = "AL" -> "al"
      [] t = "Brown" -> "brown"
      [] t = "Adams" -> "adams"
      [] t = "Cy" -> "cy"
      [] t = "Cole" -> "cole"
      [] OTHER -> t

Lower(msg) == [k \in 1..Len(msg) |-> LowerTok(msg[k])]

\* bytes(..).decode("unicode_escape") on a token.
UnescapeTok(t) == IF t = "\\n" THEN "\n" ELSE t

_decode_err_text(e) ==
    IF Len(e) >= 2 /\ e[1] = "b'" /\ e[Len(e)] = "'"
    THEN [k \in 1..(Len(e) - 2) |-> UnescapeTok(e[k + 1])]
    ELSE e

IsSpaceTok(t) == t \in {" ", "\n"}

RECURSIVE LStrip(_)
LStrip(msg) ==
    IF msg # <<>> /\ IsSpaceTok(Head(msg)) THEN LStrip(Tail(msg)) ELSE msg

RECURSIVE RStrip(_)
RStrip(msg) ==
    IF msg # <<>> /\ IsSpaceTok(msg[Len(msg)])
    THEN RStrip(SubSeq(msg, 1, Len(msg) - 1))
    ELSE msg

Strip(msg) == RStrip(LStrip(msg))

\* err.get(key) on the parsed "error" object: the token after the key.
ErrGet(msg, key) ==
    IF \E k \in 1..(Len(msg) - 1) : msg[k] = key
    THEN msg[(CHOOSE k \in 1..(Len(msg) - 1) : msg[k] = key) + 1]
    ELSE None

\* a or b on optional tokens.
OrElse(a, b) == IF a # None THEN a ELSE b

_parse_yahoo_error(e) ==
    LET msg == Strip(_decode_err_text(e))
    IN  IF Len(msg) >= 2 /\ msg[1] = JOpen /\ msg[Len(msg)] = JClose
        THEN [desc |-> <<OrElse(ErrGet(msg, KDesc), "Yahoo API error")>>,
              uri |-> OrElse(ErrGet(msg, KYUri), ErrGet(msg, KUri)),
              detail |-> ErrGet(msg, KDetail)]
        ELSE IF msg = <<"{}">>
        THEN [desc |-> <<"Yahoo API error">>, uri |-> None, detail |-> None]
        ELSE [desc |-> msg, uri |-> None, detail |-> None]

_looks_temporary(err_text) ==
    LET t == Lower(err_text)
    IN  \/ Contains(t, "temporary problem")
        \/ Contains(t, "please try again shortly")
        \/ Contains(t, "throttle")
        \/ Contains(t, "rate limit")
        \/ Contains(t, "999")
        \/ Contains(t, "unavailable")
        \/ Contains(t, "timeout")

AuthMarkers == {"401", "invalid_grant", "Not authorized"}

LooksAuth(msg) == \E s \in AuthMarkers : Contains(msg, s)

\* ------------------------------------------------------------ API payloads
\* What league().settings() can answer: the value of "draft_status", or a
\* payload without that key, or one whose value is null, or an empty payload.
SettingsPayloads == {"predraft", "PreDraft", "inprogress", "postdraft", "nokey", "null", "empty"}

\* _retry is also driven directly, with these (base_sleep, max_sleep) pairs.
SleepConfigs == {<<DefaultBaseSleep, DefaultMaxSleep>>, <<DefaultBaseSleep, 10>>, <<20, 10>>}

\* random.uniform(0.7, 1.3), in tenths: both ends and the middle.
Jitters == {JitterLo, 10, JitterHi}

TtlChoices == {1, DefaultTtl}

PayloadFor(a) == IF a \in {"settings", "get_draft_status"} THEN SettingsPayloads ELSE {"payload"}

\* (data or {}).get("draft_status", "").lower(); "raise" when the value is null.
DraftStatusLower(data) ==
    CASE data \in {"predraft", "PreDraft"} -> "predraft"
      [] data \in {"inprogress", "postdraft"} -> data
      [] data = "null" -> "raise"
      [] OTHER -> ""

Truthy(data) == data \notin {"empty", None}

\* {"draft_status": s.get("draft_status"), "draft_time": s.get("draft_time")}
\* of a settings payload s; every payload but the empty one carries a draft time.
DraftStatusDict(s) ==
    <<"draft_status",
      IF s \in {"predraft", "PreDraft", "inprogress", "postdraft"} THEN s ELSE None,
      "draft_time",
      IF s = "empty" THEN None ELSE "time">>

\* ------------------------------------------------------------------ state
VARIABLES
    pc,             \* "idle" or "retry": inside the loop of _retry
    acc,            \* the operation in progress or last completed
    tries, base_sleep, max_sleep,   \* arguments of the _retry call
    i,              \* loop index of _retry
    calls,          \* invocations of fn made by the current operation
    last_err,       \* [some, text]: last_err of _retry
    slept,          \* duration of the last time.sleep of _retry, -1 if none
    seen,           \* classes of the failures of this _retry call: "temp", "other"
    nsleeps,        \* number of time.sleep calls of this _retry call
    lastev,         \* last thing _retry did: "none", fn "ok", fn "raised", "sleep"
    out,            \* outcome of the last completed operation
    settings_cache, \* self._settings_cache: [has, ts, data]
    ttl_sec,        \* argument of the settings call in progress
    t_call,         \* the local `now` of the settings call in progress
    now             \* time.time(), in seconds

clientVars == <<pc, acc, tries, base_sleep, max_sleep, i, calls, last_err, slept, seen,
                nsleeps, lastev, out, settings_cache, ttl_sec, t_call, now>>

NoErr == [some |-> FALSE, text |-> <<>>]
NoOut == [kind |-> "none", val |-> <<>>, uri |-> None, detail |-> None]

Returned(v) == [kind |-> "return", val |-> <<v>>, uri |-> None, detail |-> None]
Cached(v) == [kind |-> "cached", val |-> <<v>>, uri |-> None, detail |-> None]

\* What a (settings or get_draft_status) returns when settings() returned r:
\* get_draft_status builds a new dict of two keys of the payload.
Handed(a, r) ==
    IF a = "get_draft_status" THEN [r EXCEPT !.val = DraftStatusDict(r.val[1])] ELSE r
Reraised(e) == [kind |-> "api_error", val |-> e, uri |-> None, detail |-> None]
Escaped(k) == [kind |-> k, val |-> <<>>, uri |-> None, detail |-> None]

\* YahooClientError(desc, uri=uri, detail=detail) of the failure text e.
YahooClientError(e) ==
    LET p == _parse_yahoo_error(e)
    IN  [kind |-> "YahooClientError", val |-> p.desc, uri |-> p.uri, detail |-> p.detail]

\* __init__ never assigns self._settings_cache: the attribute does not exist.
InitClient ==
    /\ pc = "idle"
    /\ acc = "none"
    /\ tries = DefaultTries
    /\ base_sleep = DefaultBaseSleep
    /\ max_sleep = DefaultMaxSleep
    /\ i = 0
    /\ calls = 0
    /\ last_err = NoErr
    /\ slept = -1
    /\ seen = {}
    /\ nsleeps = 0
    /\ lastev = "none"
    /\ out = NoOut
    /\ settings_cache = [has |-> FALSE, ts |-> 0, data |-> None]
    /\ ttl_sec = DefaultTtl
    /\ t_call = 0
    /\ now = 0

\* ------------------------------------------------------------------ _retry
\* `for i in range(tries)`: the loop is over once n attempts were made.
RangeExhaustedLate(n, t) == n > t

RangeExhausted(n, t) == n >= t

\* any(s in msg for s in ("401", "invalid_grant", "Not authorized"))
FastFailOnly401(msg) == Contains(msg, "401")

FastFail(msg) == LooksAuth(msg)

\* min(base_sleep * 2**i, max_sleep) * jitter
BackoffSleepUncapped(b, m, n, j) == b * Pow2(n) * j

BackoffSleep(b, m, n, j) == Min(b * Pow2(n), m) * j

\* i >= 2 and not _looks_temporary(msg) and i >= tries - 2
StopEarlyAtTwo(n, t, msg) == n >= 2 /\ ~_looks_temporary(msg)

StopEarly(n, t, msg) == n >= 2 /\ ~_looks_temporary(msg) /\ n >= t - 2

FailClass(msg) == IF _looks_temporary(msg) THEN "temp" ELSE "other"

\* Entering _retry(fn, tries=t, base_sleep=b, max_sleep=m) on behalf of a.
EnterRetry(a, t, b, m) ==
    /\ acc' = a
    /\ tries' = t
    /\ base_sleep' = b
    /\ max_sleep' = m
    /\ i' = 0
    /\ calls' = 0
    /\ last_err' = NoErr
    /\ slept' = -1
    /\ seen' = {}
    /\ nsleeps' = 0
    /\ lastev' = "none"
    /\ IF RangeExhausted(0, t)
       THEN /\ pc' = "idle"
            /\ out' = YahooClientError(<<"Unknown error">>)
       ELSE /\ pc' = "retry"
            /\ out' = NoOut

\* fn() returned data: _retry returns it; settings() then updates its cache,
\* and get_draft_status() builds its dict of what settings() returned.
AttemptReturns(data) ==
    /\ pc' = "idle"
    /\ calls' = calls + 1
    /\ lastev' = "ok"
    /\ UNCHANGED <<i, last_err, slept, seen, nsleeps>>
    /\ IF acc \in {"settings", "get_draft_status"}
       THEN IF DraftStatusLower(data) = "raise"
            THEN /\ out' = Escaped("AttributeError")
                 /\ UNCHANGED settings_cache
            ELSE /\ settings_cache' =
                        IF DraftStatusLower(data) = "predraft"
                        THEN [has |-> TRUE, ts |-> t_call, data |-> data]
                        ELSE [has |-> TRUE, ts |-> 0, data |-> None]
                 /\ out' = Handed(acc, Returned(data))
       ELSE /\ out' = Returned(data)
            /\ UNCHANGED settings_cache

\* fn() raised e: one pass through the except block of the loop.
AttemptRaises(e, j) ==
    LET msg == _decode_err_text(e)
        sleep == BackoffSleep(base_sleep, max_sleep, i, j)
    IN  /\ calls' = calls + 1
        /\ last_err' = [some |-> TRUE, text |-> e]
        /\ UNCHANGED settings_cache
        /\ IF FastFail(msg)
           THEN /\ pc' = "idle"
                /\ out' = Reraised(e)
                /\ lastev' = "raised"
                /\ UNCHANGED <<i, slept, seen, nsleeps>>
           ELSE /\ seen' = seen \cup {FailClass(msg)}
                /\ IF StopEarly(i, tries, msg)
                   THEN /\ pc' = "idle"
                        /\ out' = YahooClientError(e)
                        /\ lastev' = "raised"
                        /\ UNCHANGED <<i, slept, nsleeps>>
                   ELSE /\ slept' = sleep
                        /\ nsleeps' = nsleeps + 1
                        /\ lastev' = "sleep"
                        /\ i' = i + 1
                        /\ IF RangeExhausted(i + 1, tries)
                           THEN /\ pc' = "idle"
                                /\ out' = YahooClientError(e)
                           ELSE /\ pc' = "retry"
                                /\ out' = NoOut

\* One iteration of the loop of _retry.
Attempt ==
    /\ pc = "retry"
    /\ \/ \E data \in PayloadFor(acc) : AttemptReturns(data)
       \/ \E e \in ErrTexts, j \in Jitters : AttemptRaises(e, j)
    /\ UNCHANGED <<acc, tries, base_sleep, max_sleep, ttl_sec, t_call, now>>

\* A direct call of _retry with any fn.
RetryCall ==
    /\ pc = "idle"
    /\ \E t \in 0..MaxTries, c \in SleepConfigs : EnterRetry("_retry", t, c[1], c[2])
    /\ UNCHANGED <<settings_cache, ttl_sec, t_call, now>>

\* --------------------------------------------------------------- accessors
SimpleAccessors ==
    {"standings", "teams", "matchups", "waiver_wire", "free_agents", "players",
     "draft_results", "transactions"}

\* standings(), teams(), matchups(week), waiver_wire(), free_agents(pos),
\* players(**kw), draft_results(), transactions()
Accessor ==
    /\ pc = "idle"
    /\ \E a \in SimpleAccessors :
          EnterRetry(a, DefaultTries, DefaultBaseSleep, DefaultMaxSleep)
    /\ UNCHANGED <<settings_cache, ttl_sec, t_call, now>>

\* The operation ends without entering _retry.
NoRetry ==
    /\ i' = 0
    /\ calls' = 0
    /\ last_err' = NoErr
    /\ slept' = -1
    /\ seen' = {}
    /\ nsleeps' = 0
    /\ lastev' = "none"
    /\ UNCHANGED <<pc, tries, base_sleep, max_sleep>>

\* The body of settings(ttl_sec=ttl), called as a (settings or get_draft_status).
SettingsBody(a, ttl) ==
    IF ~settings_cache.has
    THEN /\ acc' = a
         /\ out' = Escaped("AttributeError")
         /\ ttl_sec' = ttl
         /\ t_call' = now
         /\ NoRetry
    ELSE IF Truthy(settings_cache.data) /\ now - settings_cache.ts < ttl
    THEN /\ acc' = a
         /\ out' = Handed(a, Cached(settings_cache.data))
         /\ ttl_sec' = ttl
         /\ t_call' = now
         /\ NoRetry
    ELSE /\ EnterRetry(a, DefaultTries, DefaultBaseSleep, DefaultMaxSleep)
         /\ ttl_sec' = ttl
         /\ t_call' = now

Settings ==
    /\ pc = "idle"
    /\ \E ttl \in TtlChoices : SettingsBody("settings", ttl)
    /\ UNCHANGED <<settings_cache, now>>

GetDraftStatus ==
    /\ pc = "idle"
    /\ SettingsBody("get_draft_status", DefaultTtl)
    /\ UNCHANGED <<settings_cache, now>>

\* time.time() advances.
Tick ==
    /\ now < MaxClock
    /\ now' = now + 1
    /\ UNCHANGED <<pc, acc, tries, base_sleep, max_sleep, i, calls, last_err, slept, seen,
                   nsleeps, lastev, out, settings_cache, ttl_sec, t_call>>

NextClient == RetryCall \/ Attempt \/ Accessor \/ Settings \/ GetDraftStatus \/ Tick

\* ============================================ brains/rules.py: suggest_lineup
\* Stable sort of a sequence by descending key, as sorted(..., reverse=True):
\* elements with equal keys keep their input order.  key is a function on
\* the elements of the sequence.
RECURSIVE InsertDesc(_, _, _)
InsertDesc(x, sorted, key) ==
    IF sorted = <<>> THEN <<x>>
    ELSE IF key[Head(sorted)] >= key[x]
         THEN <<Head(sorted)>> \o InsertDesc(x, Tail(sorted), key)
         ELSE <<x>> \o sorted

RECURSIVE SortDescFrom(_, _, _)
SortDescFrom(seq, sorted, key) ==
    IF seq = <<>> THEN sorted
    ELSE SortDescFrom(Tail(seq), InsertDesc(Head(seq), sorted, key), key)

SortDesc(seq, key) == SortDescFrom(seq, <<>>, key)

\* score(f) of suggest_lineup, in tenths of a point.
InjuryPen(inj) ==
    IF inj \in {"O", "IR"} THEN 40 ELSE IF inj \in {"Q", "D"} THEN 20 ELSE 0

LineupScore(f) == f.proj + (f.def_rank - 16) - InjuryPen(f.injury)

FlexPositions == {"RB", "WR", "TE"}

\* pos in filled and filled[pos] < slots[pos]
OwnSlotFreeOffByOne(pos, filled, slots) ==
    pos \in DOMAIN filled /\ filled[pos] + 1 < slots[pos]

OwnSlotFree(pos, filled, slots) ==
    pos \in DOMAIN filled /\ filled[pos] < slots[pos]

\* "FLEX" in filled and filled["FLEX"] < slots["FLEX"] and pos in ("RB","WR","TE")
FlexSlotFreeOffByOne(pos, filled, slots) ==
    "FLEX" \in DOMAIN filled /\ filled["FLEX"] <= slots["FLEX"] /\ pos \in FlexPositions

FlexSlotFree(pos, filled, slots) ==
    "FLEX" \in DOMAIN filled /\ filled["FLEX"] < slots["FLEX"] /\ pos \in FlexPositions

LineupEntry(f, slot) == [player_id |-> f.player_id, slot |-> slot, score |-> LineupScore(f)]

\* The loop `for f in ranked` with its accumulators lineup and filled.
RECURSIVE PlaceAll(_, _, _, _)
PlaceAll(ranked, lineup, filled, slots) ==
    IF ranked = <<>> THEN lineup
    ELSE LET f == Head(ranked)
             pos == f.pos
         IN  IF OwnSlotFree(pos, filled, slots)
             THEN PlaceAll(Tail(ranked), Append(lineup, LineupEntry(f, pos)),
                           [filled EXCEPT ![pos] = @ + 1], slots)
             ELSE IF FlexSlotFree(pos, filled, slots)
             THEN PlaceAll(Tail(ranked), Append(lineup, LineupEntry(f, "FLEX")),
                           [filled EXCEPT !["FLEX"] = @ + 1], slots)
             ELSE PlaceAll(Tail(ranked), lineup, filled, slots)

suggest_lineup(features, slots) ==
    PlaceAll(SortDesc(features, [f \in Range(features) |-> LineupScore(f)]), <<>>,
             [k \in DOMAIN slots |-> 0], slots)

\* Inputs of suggest_lineup: features with their (proj, def_rank, injury).
LineupPositions == {"QB", "RB", "TE", "FLEX"}
LineupStats == {<<120, 16, "OK">>, <<150, 16, "O">>, <<110, 26, "OK">>}

FeatureAt(k, pos, st) ==
    [player_id |-> k, pos |-> pos, proj |-> st[1], def_rank |-> st[2], injury |-> st[3]]

SlotMaps ==
    [{"RB", "FLEX"} -> 0..MaxSlotCount]
        \cup {[k \in {"QB", "RB"} |-> 1],
              [k \in {"QB", "RB", "TE", "FLEX"} |-> IF k = "RB" THEN 2 ELSE 1]}

VARIABLES
    lu_features,    \* argument features of suggest_lineup
    lu_slots,       \* argument slots of suggest_lineup
    lu_done,        \* suggest_lineup has returned
    lu_out          \* the lineup it returned

lineupVars == <<lu_features, lu_slots, lu_done, lu_out>>

IdleLineup ==
    /\ lu_features = <<>>
    /\ lu_slots = [k \in {"RB", "FLEX"} |-> 0]
    /\ lu_done = FALSE
    /\ lu_out = <<>>

InitLineup ==
    /\ \E n \in 0..MaxFeatures :
          \E ps \in [1..n -> LineupPositions], sts \in [1..n -> LineupStats] :
             lu_features = [k \in 1..n |-> FeatureAt(k, ps[k], sts[k])]
    /\ lu_slots \in SlotMaps
    /\ lu_done = FALSE
    /\ lu_out = <<>>

SuggestLineup ==
    /\ ~lu_done
    /\ lu_out' = suggest_lineup(lu_features, lu_slots)
    /\ lu_done' = TRUE
    /\ UNCHANGED <<lu_features, lu_slots>>

\* ============================================== brains/draft.py: tier_players
\* Projections are multiples of 0.5 point (5 tenths): the float subtraction
\* and comparison of the code are exact on them.
\* by_pos: the positions of the pool in order of first appearance.
RECURSIVE PosOrderFrom(_, _)
PosOrderFrom(pool, order) ==
    IF pool = <<>> THEN order
    ELSE IF Head(pool).pos \in Range(order)
         THEN PosOrderFrom(Tail(pool), order)
         ELSE PosOrderFrom(Tail(pool), Append(order, Head(pool).pos))

PosOrder(pool) == PosOrderFrom(pool, <<>>)

\* by_pos[pos]: the players of one position, in pool order.
PlayersAt(pool, pos) == LET AtPos(q) == q.pos = pos IN SelectSeq(pool, AtPos)

\* players.sort(key=lambda x: x["proj"], reverse=True)
TierOrderUnsorted(players) == players

TierOrder(players) == SortDesc(players, [q \in Range(players) |-> q.proj])

\* prev and (prev["proj"] - p["proj"]) > 1.8
TierBreakWide(prev, q) == (prev.proj - q.proj) > TierDrop + 10

TierBreak(prev, q) == (prev.proj - q.proj) > TierDrop

\* The loop `for p in players`: tiers closed so far, current_tier, prev.
RECURSIVE TierLoop(_, _, _)
TierLoop(players, tiers, current_tier) ==
    IF players = <<>>
    THEN IF current_tier # <<>> THEN Append(tiers, current_tier) ELSE tiers
    ELSE LET q == Head(players)
         IN  IF current_tier # <<>> /\ TierBreak(current_tier[Len(current_tier)], q)
             THEN TierLoop(Tail(players), Append(tiers, current_tier), <<q>>)
             ELSE TierLoop(Tail(players), tiers, Append(current_tier, q))

\* The loop `for pos, players in by_pos.items()`.
RECURSIVE TiersOver(_, _, _)
TiersOver(order, pool, tiers) ==
    IF order = <<>> THEN tiers
    ELSE TiersOver(Tail(order), pool,
                   TierLoop(TierOrder(PlayersAt(pool, Head(order))), tiers, <<>>))

tier_players(pool) == TiersOver(PosOrder(pool), pool, <<>>)

\* Inputs of tier_players.
DraftPositions == {"RB", "WR"}
ProjValues == {100, 170, 180, 185, 200}

VARIABLES
    tp_pool,        \* argument pool of tier_players
    tp_done,        \* tier_players has returned
    tp_out          \* the tiers it returned

draftVars == <<tp_pool, tp_done, tp_out>>

IdleDraft ==
    /\ tp_pool = <<>>
    /\ tp_done = FALSE
    /\ tp_out = <<>>

InitDraft ==
    /\ \E n \in 0..MaxPool :
          \E ps \in [1..n -> DraftPositions], pr \in [1..n -> ProjValues] :
             tp_pool = [k \in 1..n |-> [player_id |-> k, pos |-> ps[k], proj |-> pr[k]]]
    /\ tp_done = FALSE
    /\ tp_out = <<>>

TierPlayers ==
    /\ ~tp_done
    /\ tp_out' = tier_players(tp_pool)
    /\ tp_done' = TRUE
    /\ UNCHANGED tp_pool

\* ============================================== brains/draft.py: suggest_pick
\* Scores are integers in units of 1/4200 point: a tenth of a point is 420
\* units, and 2/q is 8400/q units, which is whole for every q up to 8.
QualityCut == 100
TopPicks == 5
ScarcityUnits == 8400
NeedBonusHigh == 10500
NeedBonusLow == 2100
ReachPenUnits == 84
TenthUnits == 420

\* An optional integer key of a candidate: [has |-> FALSE] is a missing key.
Missing == [has |-> FALSE, v |-> 0]
Given(n) == [has |-> TRUE, v |-> n]

\* p.get(key, 0)
GetOrZero(x) == IF x.has THEN x.v ELSE 0

\* remaining_quality[pos]: the candidates of pos with proj >= quality_cut
RemainingQualityStrict(available, pos) ==
    Cardinality({k \in 1..Len(available) :
                    available[k].pos = pos /\ available[k].proj > QualityCut})

RemainingQuality(available, pos) ==
    Cardinality({k \in 1..Len(available) :
                    available[k].pos = pos /\ available[k].proj >= QualityCut})

\* my_roster_needs.get(pos, 0)
NeedOf(my_roster_needs, pos) ==
    IF pos \in DOMAIN my_roster_needs THEN my_roster_needs[pos] ELSE 0

\* score(p) of suggest_pick
PickScore(p, available, my_roster_needs) ==
    LET scarcity == ScarcityUnits \div Max(1, RemainingQuality(available, p.pos))
        need_bonus == IF NeedOf(my_roster_needs, p.pos) > 0
                      THEN NeedBonusHigh ELSE NeedBonusLow
        reach == Max(0, GetOrZero(p.pick_num) - GetOrZero(p.adp_pick))
        reach_pen == ReachPenUnits * reach
    IN  p.proj * TenthUnits + scarcity + need_bonus - reach_pen

\* ranked[:5]
Take(seq, n) == SubSeq(seq, 1, Min(n, Len(seq)))

suggest_pick(available, my_roster_needs, picks_until_next) ==
    Take(SortDesc(available,
                  [p \in Range(available) |-> PickScore(p, available, my_roster_needs)]),
         TopPicks)

\* Inputs of suggest_pick: candidates by (pos, proj, pick_num, adp_pick).
PickKinds ==
    {<<"RB", 120, Given(30), Given(30)>>,
     <<"RB", 100, Missing, Missing>>,
     <<"WR", 130, Given(80), Given(30)>>,
     <<"WR", 95, Given(30), Given(80)>>}

CandidateAt(k, kind) ==
    [player_id |-> k, pos |-> kind[1], proj |-> kind[2],
     pick_num |-> kind[3], adp_pick |-> kind[4]]

NoNeeds == [pos \in {} |-> 0]

RosterNeeds ==
    {NoNeeds, [pos \in {"RB"} |-> 1], [pos \in {"RB", "WR"} |-> IF pos = "WR" THEN 2 ELSE 0]}

PicksUntilNext == {1, 8}

VARIABLES
    pk_available,   \* argument available of suggest_pick
    pk_needs,       \* argument my_roster_needs
    pk_until,       \* argument picks_until_next
    pk_done,        \* suggest_pick has returned
    pk_out          \* the candidates it returned

pickVars == <<pk_available, pk_needs, pk_until, pk_done, pk_out>>

IdlePick ==
    /\ pk_available = <<>>
    /\ pk_needs = NoNeeds
    /\ pk_until = 1
    /\ pk_done = FALSE
    /\ pk_out = <<>>

InitPick ==
    /\ \E n \in 0..MaxPick :
          \E ks \in [1..n -> PickKinds] :
             pk_available = [k \in 1..n |-> CandidateAt(k, ks[k])]
    /\ pk_needs \in RosterNeeds
    /\ pk_until \in PicksUntilNext
    /\ pk_done = FALSE
    /\ pk_out = <<>>

SuggestPick ==
    /\ ~pk_done
    /\ pk_out' = suggest_pick(pk_available, pk_needs, pk_until)
    /\ pk_done' = TRUE
    /\ UNCHANGED <<pk_available, pk_needs, pk_until>>

\* ===================================== yahoo_client.py: available_players
\* A player dict of the API, by the keys the code reads:
\*   player_id  the value of "player_id", None when the key is missing
\*   name       [shape: "none" | "str" | "dict", toks]: a string, or the dict
\*              {"first": toks[1], "last": toks[2]}
\*   elig       [shape: "none" | "list" | "dict", vals]: "eligible_positions"
\*              as a list, or as the dict {"0": {"position": vals[1]}, ...}
\*              in which None marks a missing index
\*   pown       [shape: "none" | "scalar" | "dict", val]: "percent_owned" as a
\*              value, or as the dict {"value": val}
\* An optional string is a token sequence, <<>> standing for None.
Player1 ==
    [player_id |-> "100",
     name |-> [shape |-> "dict", toks |-> <<"Al", "Brown">>],
     elig |-> [shape |-> "list", vals |-> <<"RB", "WR">>],
     pown |-> [shape |-> "scalar", val |-> "50"]]

Player2 ==
    [player_id |-> "200",
     name |-> [shape |-> "str", toks |-> <<"bo", " ", "Adams">>],
     elig |-> [shape |-> "dict", vals |-> <<"WR", None, "RB">>],
     pown |-> [shape |-> "dict", val |-> "5"]]

Player3 ==
    [player_id |-> None,
     name |-> [shape |-> "none", toks |-> <<>>],
     elig |-> [shape |-> "dict", vals |-> <<"RB">>],
     pown |-> [shape |-> "scalar", val |-> "n/a"]]

\* An element of an API list: {"player": item} or the bare item.
Entries ==
    {[kind |-> "player", item |-> Player1],
     [kind |-> "bare", item |-> Player2],
     [kind |-> "bare", item |-> Player3]}

PayloadsUpTo(n) == UNION {[1..m -> Entries] : m \in 0..n}

\* _coerce_player_dicts on a list of dicts: unwrap {"player": {...}}.
_coerce_player_dicts(items) == [k \in 1..Len(items) |-> items[k].item]

\* _from_kv(item, "player_id"), direct lookup.
PlayerId(item) == item.player_id

\* _player_name
_player_name(item) ==
    IF item.name.shape = "dict"
    THEN Strip(<<item.name.toks[1], " ", item.name.toks[2]>>)
    ELSE item.name.toks

\* _eligible_positions: the dict shape stops at the first missing index, the
\* list shape keeps the strings.
RECURSIVE EligDict(_)
EligDict(vals) ==
    IF vals = <<>> \/ Head(vals) = None THEN <<>>
    ELSE <<Head(vals)>> \o EligDict(Tail(vals))

_eligible_positions(item) ==
    CASE item.elig.shape = "dict" -> EligDict(item.elig.vals)
      [] item.elig.shape = "list" ->
            LET IsStr(v) == v # None IN SelectSeq(item.elig.vals, IsStr)
      [] OTHER -> <<>>

\* _percent_owned
_percent_owned(item) == IF item.pown.shape = "none" THEN None ELSE item.pown.val

\* float(r.get("%owned") or 0.0), 0.0 when float() raises.
OwnFloat(v) ==
    CASE v = "50" -> 50
      [] v = "5" -> 5
      [] OTHER -> 0

\* Python's order on the strings of the model, as a rank: "" first, then
\* upper case before lower case.  A name is ranked by its first word, which
\* decides the comparison of any two different names of the model.
WordRank(w) ==
    CASE w = "Adams" -> 1
      [] w = "Al" -> 2
      [] w = "Brown" -> 3
      [] w = "Cole" -> 4
      [] w = "Cy" -> 5
      [] w = "bo" -> 6
      [] OTHER -> 0

StrRank(toks) == IF toks = <<>> THEN 0 ELSE WordRank(toks[1])

\* nm.split()
Split(toks) == LET IsWord(t) == ~IsSpaceTok(t) IN SelectSeq(toks, IsWord)

\* The sort keys, tuples compared lexicographically, as one integer.
sort_key_AR(r) == OwnFloat(r.pown) * 10 + StrRank(r.name)

sort_key_POWN(r) == (0 - OwnFloat(r.pown)) * 10 + StrRank(r.name)

sort_key_NAME(r) ==
    LET parts == Split(r.name)
        first == IF parts # <<>> THEN parts[1] ELSE ""
        last == IF Len(parts) > 1 THEN parts[Len(parts)] ELSE first
    IN  WordRank(last) * 10 + WordRank(first)

\* list.sort(key=...): stable, ascending.
RECURSIVE InsertAsc(_, _, _)
InsertAsc(x, sorted, key) ==
    IF sorted = <<>> THEN <<x>>
    ELSE IF key[Head(sorted)] <= key[x]
         THEN <<Head(sorted)>> \o InsertAsc(x, Tail(sorted), key)
         ELSE <<x>> \o sorted

RECURSIVE SortAscFrom(_, _, _)
SortAscFrom(seq, sorted, key) ==
    IF seq = <<>> THEN sorted
    ELSE SortAscFrom(Tail(seq), InsertAsc(Head(seq), sorted, key), key)

SortAsc(seq, key) == SortAscFrom(seq, <<>>, key)

\* (sort or "AR").upper() and the choice of the key.
SortRowsAlwaysAR(rows, sort) == SortAsc(rows, [r \in Range(rows) |-> sort_key_AR(r)])

SortRows(rows, sort) ==
    CASE sort \in {"POWN", "pown"} -> SortAsc(rows, [r \in Range(rows) |-> sort_key_POWN(r)])
      [] sort \in {"NAME", "name"} -> SortAsc(rows, [r \in Range(rows) |-> sort_key_NAME(r)])
      [] OTHER -> SortAsc(rows, [r \in Range(rows) |-> sort_key_AR(r)])

\* positions = [position] if position else ["QB","RB","WR","TE","DEF","K"]
AllPositions == <<"QB", "RB", "WR", "TE", "DEF", "K">>

PositionsOf(position) == IF position # None THEN <<position>> ELSE AllPositions

Tagged(items, avail) == [k \in 1..Len(items) |-> [item |-> items[k], avail |-> avail]]

\* The free-agent loop.  api[pos] is the outcome of self.free_agents(pos):
\* [kind |-> "return", val |-> payload], or a YahooClientError or the API's
\* own failure with its text in val.  The result is the pool and the calls
\* made, or the failure that escapes.
\* except YahooClientError as e: if _looks_temporary(str(e)): fa = []
FaSwallowedAny(o) == o.kind = "YahooClientError"

FaSwallowed(o) == o.kind = "YahooClientError" /\ _looks_temporary(o.val)

RECURSIVE CollectFA(_, _, _, _)
CollectFA(positions, api, pool, fetched) ==
    IF positions = <<>> THEN [kind |-> "ok", pool |-> pool, fetched |-> fetched]
    ELSE LET pos == Head(positions)
             o == api[pos]
             done == Append(fetched, pos)
         IN  CASE o.kind = "return" ->
                    CollectFA(Tail(positions), api,
                              pool \o Tagged(_coerce_player_dicts(o.val), "FA"), done)
               [] FaSwallowed(o) ->
                    CollectFA(Tail(positions), api, pool, done)
               [] OTHER -> [kind |-> o.kind, pool |-> <<>>, fetched |-> done]

\* pid and not any(_from_kv(x, "player_id") == pid for x in pool)
WaiverIsNew(pid, pool) ==
    pid # None /\ ~\E k \in 1..Len(pool) : PlayerId(pool[k].item) = pid

\* (not position) or (position in (_eligible_positions(item) or []))
WaiverMatches(position, item) ==
    position = None \/ position \in Range(_eligible_positions(item))

\* The waiver loop over the coerced waiver items.
RECURSIVE MergeWaivers(_, _, _)
MergeWaivers(items, position, pool) ==
    IF items = <<>> THEN pool
    ELSE LET item == Head(items)
         IN  IF WaiverIsNew(PlayerId(item), pool) /\ WaiverMatches(position, item)
             THEN MergeWaivers(Tail(items), position,
                               Append(pool, [item |-> item, avail |-> "W"]))
             ELSE MergeWaivers(Tail(items), position, pool)

\* The row of one pool entry (the keys team, bye, stat and inj are plain
\* lookups and are left out).
RowOf(x) ==
    LET elig == _eligible_positions(x.item)
    IN  [player_id |-> PlayerId(x.item),
         name |-> _player_name(x.item),
         pos |-> IF elig # <<>> THEN elig[1] ELSE None,
         elig |-> elig,
         pown |-> _percent_owned(x.item),
         avail |-> x.avail]

\* The search filter: rows without a name, or whose lower-cased name does not
\* hold search.lower(), are dropped.
SearchKeeps(row, search) ==
    search = None \/ (row.name # <<>> /\ Contains(Lower(row.name), LowerTok(search)))

RowsOf(pool, search) ==
    LET rows == [k \in 1..Len(pool) |-> RowOf(pool[k])]
        Keep(r) == SearchKeeps(r, search)
    IN  SelectSeq(rows, Keep)

\* isinstance(limit, int) and limit >= 0; None is the limit -1.
Limited(rows, limit) ==
    IF limit >= 0 THEN SubSeq(rows, 1, Min(limit, Len(rows))) ELSE rows

available_players(api, position, include_waivers, search, sort, limit) ==
    LET fa == CollectFA(PositionsOf(position), api, <<>>, <<>>)
        wv == api["waivers"]
    IN  IF fa.kind # "ok" THEN [kind |-> fa.kind, rows |-> <<>>, fetched |-> fa.fetched]
        ELSE IF ~include_waivers
        THEN [kind |-> "rows", fetched |-> fa.fetched,
              rows |-> Limited(SortRows(RowsOf(fa.pool, search), sort), limit)]
        ELSE IF wv.kind = "return"
        THEN [kind |-> "rows", fetched |-> Append(fa.fetched, "waivers"),
              rows |-> Limited(SortRows(RowsOf(
                           MergeWaivers(_coerce_player_dicts(wv.val), position, fa.pool),
                           search), sort), limit)]
        ELSE IF wv.kind = "YahooClientError" /\ _looks_temporary(wv.val)
        THEN [kind |-> "rows", fetched |-> Append(fa.fetched, "waivers"),
              rows |-> Limited(SortRows(RowsOf(fa.pool, search), sort), limit)]
        ELSE [kind |-> wv.kind, rows |-> <<>>, fetched |-> Append(fa.fetched, "waivers")]

\* Inputs of available_players.  The API answers the RB call with any payload
\* of up to MaxPayload entries or with a failure, the WR call with at most one
\* entry or a temporary failure, every other position with an empty list.
ApiPayload(v) == [kind |-> "return", val |-> v]
ApiTemp == [kind |-> "YahooClientError", val |-> TxtTemp]
ApiFatal == [kind |-> "YahooClientError", val |-> TxtBoom]
ApiAuth == [kind |-> "api_error", val |-> TxtAuth]

ApiKeys == Range(AllPositions) \cup {"waivers"}

ApiWorld(rb, wr, wv) ==
    [k \in ApiKeys |-> CASE k = "RB" -> rb [] k = "WR" -> wr [] k = "waivers" -> wv
                         [] OTHER -> ApiPayload(<<>>)]

ApiOutcomes(n, failures) == {ApiPayload(v) : v \in PayloadsUpTo(n)} \cup failures

PositionArgs == {None, "RB"}
SearchArgs == {None, "AL"}
SortArgs == {"AR", "pown", "NAME"}
LimitArgs == {-1, 1}

VARIABLES
    ap_api,         \* outcomes of free_agents(pos) and waiver_wire()
    ap_args,        \* [position, include_waivers, search, sort, limit]
    ap_done,        \* the generator has been run
    ap_out          \* [kind, rows, fetched]: rows yielded or failure raised

poolVars == <<ap_api, ap_args, ap_done, ap_out>>

NoRows == [kind |-> "none", rows |-> <<>>, fetched |-> <<>>]

IdlePool ==
    /\ ap_api = [k \in ApiKeys |-> ApiPayload(<<>>)]
    /\ ap_args = [position |-> None, include_waivers |-> TRUE, search |-> None,
                  sort |-> "AR", limit |-> -1]
    /\ ap_done = FALSE
    /\ ap_out = NoRows

InitPool ==
    /\ \E rb \in ApiOutcomes(MaxPayload, {ApiTemp, ApiFatal, ApiAuth}),
          wr \in ApiOutcomes(1, {ApiTemp}),
          wv \in ApiOutcomes(MaxPayload, {ApiTemp, ApiFatal}) :
             ap_api = ApiWorld(rb, wr, wv)
    /\ ap_args \in [position : PositionArgs, include_waivers : BOOLEAN,
                    search : SearchArgs, sort : SortArgs, limit : LimitArgs]
    /\ ap_done = FALSE
    /\ ap_out = NoRows

AvailablePlayers ==
    /\ ~ap_done
    /\ ap_out' = available_players(ap_api, ap_args.position, ap_args.include_waivers,
                                   ap_args.search, ap_args.sort, ap_args.limit)
    /\ ap_done' = TRUE
    /\ UNCHANGED <<ap_api, ap_args>>

\* ============================ yahoo_client.py: the extractors on any input
\* The outcome of each extractor by the kinds of the values it reads.  The
\* argument is of one of ArgKinds; a field it looks up is of one of
\* FieldKinds, "missing" being an absent key and the two empty kinds the
\* falsy containers.  An outcome is the exception raised, or the class of
\* the value returned: "None", "empty" (a falsy value) or "value".
ArgKinds == {"none", "str", "num", "list", "dict"}
FieldKinds == {"missing", "none", "str", "num", "list", "dict", "empty_list", "empty_dict"}

IsDict(k) == k \in {"dict", "empty_dict"}
IsTrue(k) == k \in {"str", "num", "list", "dict"}

Gives(k) ==
    [raised |-> "none",
     result |-> IF k \in {"missing", "none"} THEN "None"
                ELSE IF IsTrue(k) THEN "value" ELSE "empty"]

Raises(e) == [raised |-> e, result |-> "None"]

\* _coerce_player_dicts(items): items of kind a holding one element of kind
\* b, which as a dict holds "player" of kind c.
coerce_player_dicts_kinds(a, b, c, d) ==
    IF a = "list" /\ IsDict(b) THEN Gives("list") ELSE Gives("empty_list")

\* _from_kv(obj, key): obj of kind a, obj[key] of kind b, obj[0] of kind c
\* (a dict there is the blob {"name": key, "value": v}, or one that holds a
\* list with that blob, v of kind d).
from_kv_kinds(a, b, c, d) ==
    IF a # "dict" THEN Gives("none")
    ELSE IF b # "missing" THEN Gives(b)
    ELSE IF c = "dict" THEN Gives(d)
    ELSE Gives("none")

\* _safe_get(obj, [k1, k2]): obj of kind a, obj[k1] of kind b, obj[k1][k2]
\* of kind c.
safe_get_kinds(a, b, c, d) ==
    IF a = "dict" /\ b = "dict" /\ c # "missing" THEN Gives(c) ELSE Gives("none")

\* _player_name(p): p of kind a and p[0] of kind b; the name is
\* p[0]["name"], of kind c, when p[0] is a dict and that is truthy, and
\* p["name"], of kind d, otherwise; as a dict the name holds "first" of kind
\* e and a string "last".
player_name_kinds(a, b, c, d, e) ==
    LET nameKind == IF b = "dict" /\ IsTrue(c) THEN c ELSE d
    IN  IF a # "dict" THEN Raises("AttributeError")
        ELSE IF ~(b = "missing" \/ IsDict(b)) THEN Raises("AttributeError")
        ELSE IF nameKind = "dict"
        THEN IF e \notin {"missing", "str"} THEN Raises("TypeError") ELSE Gives("str")
        ELSE Gives(nameKind)

\* _eligible_positions(p): p of kind a, p["eligible_positions"] of kind b;
\* as a dict it holds "0" of kind c, which as a dict holds "position" of
\* kind d; as a list it holds one element of kind c.
eligible_positions_kinds(a, b, c, d) ==
    IF a # "dict" THEN Raises("AttributeError")
    ELSE IF ~IsTrue(b) THEN Gives("empty_list")
    ELSE IF b = "dict"
    THEN IF c \in {"missing", "none"} THEN Gives("empty_list")
         ELSE IF ~IsDict(c) THEN Raises("AttributeError")
         ELSE IF c = "dict" /\ IsTrue(d) THEN Gives("list")
         ELSE Gives("empty_list")
    ELSE IF b = "list" /\ c = "str" THEN Gives("list")
    ELSE Gives("empty_list")

\* _bye_week(p): bw is _from_kv(p, "bye_weeks") of p, p["bye_weeks"], p[0]
\* and the blob's value of kinds a, b, c, d; as a dict bw holds "week" of
\* kind e.
bye_week_kinds(a, b, c, d, e) ==
    LET bw == from_kv_kinds(a, b, c, d)
        bwKind == IF a # "dict" THEN "none"
                  ELSE IF b # "missing" THEN b
                  ELSE IF c = "dict" THEN d ELSE "none"
    IN  IF bwKind = "dict" THEN Gives(e)
        ELSE IF bwKind = "empty_dict" THEN Gives("none")
        ELSE bw

\* _percent_owned(p): po is p["percent_owned"], of kind b, when that is
\* truthy and else _from_kv(p, "percent_owned") of p, p["percent_owned"],
\* p[0] and the blob's value of kinds a, b, c, d; as a dict po holds "value"
\* of kind e and "percent_owned" of kind f.
percent_owned_kinds(a, b, c, d, e, f) ==
    LET poKind == IF b # "missing" THEN b
                  ELSE IF c = "dict" THEN d ELSE "none"
    IN  IF a # "dict" THEN Raises("AttributeError")
        ELSE IF poKind = "dict" THEN (IF IsTrue(e) THEN Gives(e) ELSE Gives(f))
        ELSE IF poKind = "empty_dict" THEN Gives("none")
        ELSE Gives(poKind)

Extractors ==
    {"_coerce_player_dicts", "_from_kv", "_safe_get", "_player_name",
     "_eligible_positions", "_bye_week", "_percent_owned"}

Extract(fn, a, b, c, d, e, f) ==
    CASE fn = "_coerce_player_dicts" -> coerce_player_dicts_kinds(a, b, c, d)
      [] fn = "_from_kv" -> from_kv_kinds(a, b, c, d)
      [] fn = "_safe_get" -> safe_get_kinds(a, b, c, d)
      [] fn = "_player_name" -> player_name_kinds(a, b, c, d, e)
      [] fn = "_eligible_positions" -> eligible_positions_kinds(a, b, c, d)
      [] fn = "_bye_week" -> bye_week_kinds(a, b, c, d, e)
      [] fn = "_percent_owned" -> percent_owned_kinds(a, b, c, d, e, f)

\* The kinds of the fifth and sixth value an extractor reads; the extractors
\* that read four values are given absent ones.
FifthKinds(fn) ==
    IF fn \in {"_player_name", "_bye_week", "_percent_owned"} THEN FieldKinds ELSE {"missing"}
SixthKinds(fn) == IF fn = "_percent_owned" THEN FieldKinds ELSE {"missing"}

VARIABLES
    ex_fn,          \* the extractor called
    ex_in,          \* the kinds <<a, b, c, d, e, f>> of the values it reads
    ex_done,        \* the call has ended
    ex_out          \* [raised, result]

extractVars == <<ex_fn, ex_in, ex_done, ex_out>>

IdleExtract ==
    /\ ex_fn = "_safe_get"
    /\ ex_in = <<"none", "missing", "missing", "missing", "missing", "missing">>
    /\ ex_done = FALSE
    /\ ex_out = Gives("none")

InitExtract ==
    /\ \E fn \in Extractors :
          /\ ex_fn = fn
          /\ ex_in \in ArgKinds \X FieldKinds \X FieldKinds \X FieldKinds
                         \X FifthKinds(fn) \X SixthKinds(fn)
    /\ ex_done = FALSE
    /\ ex_out = Gives("none")

CallExtractor ==
    /\ ~ex_done
    /\ ex_out' = Extract(ex_fn, ex_in[1], ex_in[2], ex_in[3], ex_in[4], ex_in[5], ex_in[6])
    /\ ex_done' = TRUE
    /\ UNCHANGED <<ex_fn, ex_in>>

\* =========================== scheduler.py and YahooClient.league: the threads
\* The interactive thread and the job every_min_fetch both reach
\* YahooClient.league() through an accessor, self._retry(lambda:
\* self.league().standings()): every attempt of _retry calls league() again.
\* The job draft_check calls get_draft_status(), which fails on the unset
\* settings cache before it gets to league().  A handle is the number of the
\* construction that made it, 0 standing for None.
FailLimit == 3
BackoffMinutes == 15
StillFailingAt == {5, 10}
PollMins == {1, 5, 15}
LeagueCallers == {"cli", "every_min_fetch"}
StandingsOutcomes == {"ok", "unsized", "raise"}
\* What an attempt of an accessor's _retry can fail with.
AttemptErrs == {TxtAuth, TxtTemp, TxtBoom}

VARIABLES
    sc_poll_min,    \* argument poll_min of start_scheduler
    sc_count,       \* fail_state["count"]
    sc_muted,       \* fail_state["muted"]
    sc_interval,    \* minutes of the trigger of job every_min_fetch
    sc_said,        \* the last thing the last run of every_min_fetch printed
    sc_runs,        \* completed runs of every_min_fetch
    sc_draft_runs,  \* completed runs of draft_check
    sc_cli_calls,   \* accessor calls begun by the interactive thread
    th_pc,          \* position of each thread that calls league()
    th_i,           \* loop index of _retry in the accessor call of each thread
    th_new,         \* the League a thread has constructed and not yet stored
    th_got,         \* the handle league() last returned to each thread
    lg_handle,      \* self._league
    lg_built,       \* constructions of yf_league.League so far
    lg_returned     \* the handles league() has returned to its callers

schedVars == <<sc_poll_min, sc_count, sc_muted, sc_interval, sc_said, sc_runs,
               sc_draft_runs, sc_cli_calls, th_pc, th_i, th_new, th_got, lg_handle,
               lg_built,
               lg_returned>>

failVars == <<sc_count, sc_muted, sc_interval, sc_said>>
leagueVars == <<lg_handle, lg_built, lg_returned, th_new, th_got>>

IdleSched ==
    /\ sc_poll_min = 5
    /\ sc_count = 0
    /\ sc_muted = FALSE
    /\ sc_interval = 5
    /\ sc_said = "nothing"
    /\ sc_runs = 0
    /\ sc_draft_runs = 0
    /\ sc_cli_calls = 0
    /\ th_pc = [t \in LeagueCallers |-> "idle"]
    /\ th_i = [t \in LeagueCallers |-> 0]
    /\ th_new = [t \in LeagueCallers |-> 0]
    /\ th_got = [t \in LeagueCallers |-> 0]
    /\ lg_handle = 0
    /\ lg_built = 0
    /\ lg_returned = {}

\* start_scheduler(y, repo, poll_min) on a fresh client
InitSched ==
    /\ sc_poll_min \in PollMins
    /\ sc_count = 0
    /\ sc_muted = FALSE
    /\ sc_interval = sc_poll_min
    /\ sc_said = "nothing"
    /\ sc_runs = 0
    /\ sc_draft_runs = 0
    /\ sc_cli_calls = 0
    /\ th_pc = [t \in LeagueCallers |-> "idle"]
    /\ th_i = [t \in LeagueCallers |-> 0]
    /\ th_new = [t \in LeagueCallers |-> 0]
    /\ th_got = [t \in LeagueCallers |-> 0]
    /\ lg_handle = 0
    /\ lg_built = 0
    /\ lg_returned = {}

\* if fail_state["count"] >= 3 and not fail_state["muted"]
BackOffDueAfterLimit(count, muted) == count > FailLimit /\ ~muted

BackOffDue(count, muted) == count >= FailLimit /\ ~muted

\* The except branch of every_min_fetch, entered with the count as it is.
FetchFailed(count, muted, interval) ==
    LET c == count + 1
        due == BackOffDue(c, muted)
    IN  [count |-> c,
         muted |-> IF due THEN TRUE ELSE muted,
         interval |-> IF due THEN BackoffMinutes ELSE interval,
         said |-> IF due THEN "backing off"
                  ELSE IF c = 1 THEN "error"
                  ELSE IF c \in StillFailingAt THEN "still failing" ELSE "nothing"]

\* One run of every_min_fetch by the outcome of y.standings(): a list, a
\* value without len(), or a raised exception.
every_min_fetch(count, muted, interval, poll_min, outcome) ==
    IF outcome = "raise" THEN FetchFailed(count, muted, interval)
    ELSE LET restored == IF muted THEN poll_min ELSE interval
         IN  IF outcome = "ok"
             THEN [count |-> 0, muted |-> FALSE, interval |-> restored, said |-> "ok"]
             ELSE FetchFailed(0, FALSE, restored)

\* An attempt of _retry(fn) with the default arguments, at loop index n, that
\* raised e: whether _retry gives up (re-raises, breaks, or has used the last
\* index of the range) or sleeps and goes on to index n + 1.
RetryGivesUp(n, e) ==
    LET msg == _decode_err_text(e)
    IN  \/ FastFail(msg)
        \/ StopEarly(n, DefaultTries, msg)
        \/ RangeExhausted(n + 1, DefaultTries)

\* The interactive thread begins an accessor call (ping: y.teams()).
CliCall ==
    /\ th_pc["cli"] = "idle"
    /\ sc_cli_calls < MaxCliCalls
    /\ sc_cli_calls' = sc_cli_calls + 1
    /\ th_pc' = [th_pc EXCEPT !["cli"] = "check"]
    /\ th_i' = [th_i EXCEPT !["cli"] = 0]
    /\ UNCHANGED <<sc_poll_min, failVars, sc_runs, sc_draft_runs, leagueVars>>

\* The scheduler fires every_min_fetch: y.standings() begins.
StartRun ==
    /\ th_pc["every_min_fetch"] = "idle"
    /\ sc_runs < MaxRuns
    /\ th_pc' = [th_pc EXCEPT !["every_min_fetch"] = "check"]
    /\ th_i' = [th_i EXCEPT !["every_min_fetch"] = 0]
    /\ UNCHANGED <<sc_poll_min, failVars, sc_runs, sc_draft_runs, sc_cli_calls, leagueVars>>

\* league(): if self._league is None
LeagueCheck(t) ==
    /\ th_pc[t] = "check"
    /\ th_pc' = [th_pc EXCEPT ![t] = IF lg_handle = 0 THEN "build" ELSE "return"]
    /\ UNCHANGED <<sc_poll_min, failVars, sc_runs, sc_draft_runs, sc_cli_calls, th_i,
                   leagueVars>>

\* league(): yf_league.League(self.oauth, self.league_id), the right-hand
\* side of line 87; another thread can run before the result is stored.
LeagueBuild(t) ==
    /\ th_pc[t] = "build"
    /\ lg_built' = lg_built + 1
    /\ th_new' = [th_new EXCEPT ![t] = lg_built + 1]
    /\ th_pc' = [th_pc EXCEPT ![t] = "store"]
    /\ UNCHANGED <<sc_poll_min, failVars, sc_runs, sc_draft_runs, sc_cli_calls, th_i,
                   lg_handle, lg_returned, th_got>>

\* league(): self._league = <the League just constructed>
LeagueStore(t) ==
    /\ th_pc[t] = "store"
    /\ lg_handle' = th_new[t]
    /\ th_new' = [th_new EXCEPT ![t] = 0]
    /\ th_pc' = [th_pc EXCEPT ![t] = "return"]
    /\ UNCHANGED <<sc_poll_min, failVars, sc_runs, sc_draft_runs, sc_cli_calls, th_i,
                   lg_built, lg_returned, th_got>>

\* league(): return self._league
LeagueReturn(t) ==
    /\ th_pc[t] = "return"
    /\ th_got' = [th_got EXCEPT ![t] = lg_handle]
    /\ lg_returned' = lg_returned \cup {lg_handle}
    /\ th_pc' = [th_pc EXCEPT ![t] = "api"]
    /\ UNCHANGED <<sc_poll_min, failVars, sc_runs, sc_draft_runs, sc_cli_calls, th_i,
                   lg_handle, lg_built, th_new>>

\* The API call of the attempt raised and _retry goes on: it sleeps, and the
\* next attempt calls league() again.
AttemptAgain(t) ==
    /\ th_pc[t] = "api"
    /\ \E e \in AttemptErrs : ~RetryGivesUp(th_i[t], e)
    /\ th_i' = [th_i EXCEPT ![t] = th_i[t] + 1]
    /\ th_pc' = [th_pc EXCEPT ![t] = "check"]
    /\ UNCHANGED <<sc_poll_min, failVars, sc_runs, sc_draft_runs, sc_cli_calls, leagueVars>>

\* The interactive call ends, its attempt having returned or _retry having
\* given up; its try/except prints the result or the error.
CliDone ==
    /\ th_pc["cli"] = "api"
    /\ th_pc' = [th_pc EXCEPT !["cli"] = "idle"]
    /\ th_i' = [th_i EXCEPT !["cli"] = 0]
    /\ UNCHANGED <<sc_poll_min, failVars, sc_runs, sc_draft_runs, sc_cli_calls, leagueVars>>

\* y.standings() ends, its attempt having returned or _retry having given up,
\* and every_min_fetch runs to its end.
FinishRun ==
    /\ th_pc["every_min_fetch"] = "api"
    /\ \E outcome \in StandingsOutcomes :
          /\ outcome = "raise" =>
                \E e \in AttemptErrs : RetryGivesUp(th_i["every_min_fetch"], e)
          /\ LET r == every_min_fetch(sc_count, sc_muted, sc_interval, sc_poll_min, outcome)
             IN  /\ sc_count' = r.count
                 /\ sc_muted' = r.muted
                 /\ sc_interval' = r.interval
                 /\ sc_said' = r.said
    /\ sc_runs' = sc_runs + 1
    /\ th_pc' = [th_pc EXCEPT !["every_min_fetch"] = "idle"]
    /\ th_i' = [th_i EXCEPT !["every_min_fetch"] = 0]
    /\ UNCHANGED <<sc_poll_min, sc_draft_runs, sc_cli_calls, leagueVars>>

\* draft_check: get_draft_status() raises on the unset cache, which the job
\* swallows.
DraftCheck ==
    /\ sc_draft_runs < MaxDraftRuns
    /\ sc_draft_runs' = sc_draft_runs + 1
    /\ UNCHANGED <<sc_poll_min, failVars, sc_runs, sc_cli_calls, th_pc, th_i, leagueVars>>

NextSched ==
    \/ CliCall
    \/ StartRun
    \/ \E t \in LeagueCallers : LeagueCheck(t)
    \/ \E t \in LeagueCallers : LeagueBuild(t)
    \/ \E t \in LeagueCallers : LeagueStore(t)
    \/ \E t \in LeagueCallers : LeagueReturn(t)
    \/ \E t \in LeagueCallers : AttemptAgain(t)
    \/ CliDone
    \/ FinishRun
    \/ DraftCheck

\* ======================================= cli.py: run_command's loop, available
\* A line is its first word and the words after it.  A word of the text after
\* "available" is, by its quoting and form:
\*   plain     a bare word
\*   quoted    a word in balanced quotes, val being the text inside
\*   dangling  a word with one quote that is never closed
\*   opt       an option name, "--pos"
\*   opteq     an option with its value, "--pos=wr", flag and val its parts
\* text is the word as typed (for a quoted word, as shlex returns it).
Word(k, flag, val, text) == [k |-> k, flag |-> flag, val |-> val, text |-> text]

RawWords ==
    {Word("opt", "--pos", None, "--pos"),
     Word("opteq", "--pos", "wr", "--pos=wr"),
     Word("opt", "--search", None, "--search"),
     Word("opt", "--sort", None, "--sort"),
     Word("opteq", "--sort", "name", "--sort=name"),
     Word("opt", "--limit", None, "--limit"),
     Word("opt", "--no-waivers", None, "--no-waivers"),
     Word("opt", "--jsonl", None, "--jsonl"),
     Word("opt", "-h", None, "-h"),
     Word("plain", None, "rb", "rb"),
     Word("plain", None, "5", "5"),
     Word("quoted", None, "al", "al"),
     Word("dangling", None, "o'brien", "o'brien")}

\* str.upper() on the words of RawWords and their values
Upper(t) ==
    CASE t = "--pos" -> "--POS"
      [] t = "--pos=wr" -> "--POS=WR"
      [] t = "--search" -> "--SEARCH"
      [] t = "--sort" -> "--SORT"
      [] t = "--sort=name" -> "--SORT=NAME"
      [] t = "--limit" -> "--LIMIT"
      [] t = "--no-waivers" -> "--NO-WAIVERS"
      [] t = "--jsonl" -> "--JSONL"
      [] t = "-h" -> "-H"
      [] t = "rb" -> "RB"
      [] t = "wr" -> "WR"
      [] t = "al" -> "AL"
      [] t = "name" -> "NAME"
      [] t = "o'brien" -> "O'BRIEN"
      [] OTHER -> t

\* shlex.split(argv) on words of which at most one is dangling:
\* ValueError("No closing quotation") on the quote left open, else the words
\* with their quotes removed.
shlex_split(words) ==
    IF \E k \in 1..Len(words) : words[k].k = "dangling"
    THEN [raised |-> TRUE, tokens |-> <<>>]
    ELSE [raised |-> FALSE,
          tokens |-> [k \in 1..Len(words) |->
                         IF words[k].k = "quoted"
                         THEN Word("plain", None, words[k].val, words[k].text)
                         ELSE words[k]]]

\* The options of _handle_available before the first token; limit -1 is None.
\* usage: the loop met -h and returned; warned: it printed the warning of an
\* unknown option.
DefaultOpts ==
    [pos |-> None, search |-> None, sort |-> "AR", limit |-> -1,
     include_waivers |-> TRUE, jsonl |-> FALSE, usage |-> FALSE, warned |-> FALSE]

\* tokens[i] if i < len(tokens) else None
TokenOr(tokens, n, default) == IF n <= Len(tokens) THEN tokens[n].text ELSE default

\* int(tokens[i]), None when it fails or the token is missing
IntOr(tokens, n) == IF n <= Len(tokens) /\ tokens[n].text = "5" THEN 5 ELSE -1

\* The while loop over the tokens, from index n with the options o so far.
RECURSIVE ParseTokens(_, _, _)
ParseTokens(tokens, n, o) ==
    IF n > Len(tokens) THEN o
    ELSE LET t == tokens[n]
         IN  CASE t.text \in {"--pos", "-p"} ->
                    ParseTokens(tokens, n + 2, [o EXCEPT !.pos = TokenOr(tokens, n + 1, None)])
               [] t.k = "opteq" /\ t.flag = "--pos" ->
                    ParseTokens(tokens, n + 1, [o EXCEPT !.pos = t.val])
               [] t.text = "--search" ->
                    ParseTokens(tokens, n + 2,
                                [o EXCEPT !.search = TokenOr(tokens, n + 1, None)])
               [] t.k = "opteq" /\ t.flag = "--search" ->
                    ParseTokens(tokens, n + 1, [o EXCEPT !.search = t.val])
               [] t.text = "--sort" ->
                    ParseTokens(tokens, n + 2,
                                [o EXCEPT !.sort = Upper(TokenOr(tokens, n + 1, o.sort))])
               [] t.k = "opteq" /\ t.flag = "--sort" ->
                    ParseTokens(tokens, n + 1, [o EXCEPT !.sort = Upper(t.val)])
               [] t.text = "--limit" ->
                    ParseTokens(tokens, n + 2, [o EXCEPT !.limit = IntOr(tokens, n + 1)])
               [] t.text = "--no-waivers" ->
                    ParseTokens(tokens, n + 1, [o EXCEPT !.include_waivers = FALSE])
               [] t.text = "--jsonl" ->
                    ParseTokens(tokens, n + 1, [o EXCEPT !.jsonl = TRUE])
               [] t.text \in {"-h", "--help"} -> [o EXCEPT !.usage = TRUE]
               [] OTHER ->
                    IF o.pos = None /\ Upper(t.text) \in Range(AllPositions)
                    THEN ParseTokens(tokens, n + 1, [o EXCEPT !.pos = Upper(t.text)])
                    ELSE ParseTokens(tokens, n + 1, [o EXCEPT !.warned = TRUE])

\* What y.available_players does for the handler: rows, no rows, or an error.
AvailableOutcomes == {"rows", "empty", "error"}

\* _handle_available(y, argv): the options it parsed and the last thing it
\* printed, or the exception that leaves it.
_handle_available(words, outcome) ==
    LET sp == shlex_split(words)
        o == ParseTokens(sp.tokens, 1, DefaultOpts)
    IN  IF sp.raised THEN [raised |-> TRUE, opts |-> DefaultOpts, said |-> "ValueError"]
        ELSE IF o.usage THEN [raised |-> FALSE, opts |-> o, said |-> "usage"]
        ELSE [raised |-> FALSE, opts |-> o,
              said |-> CASE outcome = "error" -> "available error"
                         [] outcome = "rows" /\ o.jsonl -> "json"
                         [] outcome = "rows" -> "table"
                         [] outcome = "empty" /\ o.jsonl ->
                                IF o.warned THEN "warning" ELSE "nothing"
                         [] OTHER -> "no players"]

\* The first words of the lines typed at the prompt, and q.lower() on them.
FirstWords ==
    {"quit", "Exit", "q", "help", "?", "available", "Available", "ping", "lineup",
     "waivers", "draft", "who should i start", "on the clock", "hello"}

LowerWord(w) ==
    CASE w = "Exit" -> "exit"
      [] w = "Available" -> "available"
      [] OTHER -> w

LineupSlots == [k \in {"QB", "RB", "WR", "TE", "FLEX"} |-> IF k \in {"RB", "WR"} THEN 2 ELSE 1]

VARIABLES
    rp_state,       \* "prompt": at Prompt.ask; "handling": in the loop body;
                    \* "left": the loop was left; "crashed": an exception left it
    rp_line,        \* the line being handled
    rp_opts,        \* the options _handle_available parsed for the last line
    rp_said         \* the last thing the last line made the program print

replVars == <<rp_state, rp_line, rp_opts, rp_said>>

NoLine == [kind |-> "none", first |-> "", rest |-> <<>>]

InitRepl ==
    /\ rp_state = "prompt"
    /\ rp_line = NoLine
    /\ rp_opts = DefaultOpts
    /\ rp_said = "commands"

\* Prompt.ask raises EOFError or KeyboardInterrupt: the loop is left.
PromptEnds ==
    /\ rp_state = "prompt"
    /\ \E kind \in {"eof", "interrupt"} : rp_line' = [NoLine EXCEPT !.kind = kind]
    /\ rp_state' = "left"
    /\ rp_said' = "goodbye"
    /\ rp_opts' = DefaultOpts

\* An empty line: `if not q: continue`.
EmptyLine ==
    /\ rp_state = "prompt"
    /\ rp_line' = NoLine
    /\ rp_said' = "nothing"
    /\ rp_opts' = DefaultOpts
    /\ UNCHANGED rp_state

\* Prompt.ask returns a line of a first word and up to MaxArgs further words,
\* at most one of them dangling.
ReadLine ==
    /\ rp_state = "prompt"
    /\ \E first \in FirstWords, n \in 0..MaxArgs :
          \E rest \in [1..n -> RawWords] :
             /\ Cardinality({k \in 1..n : rest[k].k = "dangling"}) <= 1
             /\ rp_line' = [kind |-> "text", first |-> first, rest |-> rest]
    /\ rp_state' = "handling"
    /\ rp_said' = "nothing"
    /\ rp_opts' = DefaultOpts

\* The loop body on a line that is not an available command: where the loop
\* goes next and what is printed.  ping always prints an error, since
\* y.settings() fails on the unset cache.
LoopBody(first, rest) ==
    LET low == LowerWord(first)
        alone == rest = <<>>
        To(state, said) == [state |-> state, said |-> said]
    IN  CASE low \in {"quit", "exit", "q"} /\ alone -> To("left", "exiting")
          [] low \in {"help", "?"} /\ alone -> To("prompt", "commands")
          [] low = "ping" /\ alone -> To("prompt", "error")
          [] low = "lineup" ->
                To("prompt", IF suggest_lineup(<<>>, LineupSlots) = <<>>
                             THEN "no lineup" ELSE "lineup table")
          [] low = "waivers" -> To("prompt", "no waivers")
          [] low = "draft" ->
                To("prompt", IF suggest_pick(<<>>, NoNeeds, 0) = <<>>
                             THEN "no draft" ELSE "draft table")
          [] low = "who should i start" -> To("prompt", "try lineup")
          [] low = "on the clock" -> To("prompt", "try draft")
          [] OTHER -> To("prompt", "commands")

HandleCommand ==
    /\ rp_state = "handling"
    /\ LowerWord(rp_line.first) # "available"
    /\ LET r == LoopBody(rp_line.first, rp_line.rest)
       IN  /\ rp_state' = r.state
           /\ rp_said' = r.said
           /\ rp_line' = NoLine
           /\ UNCHANGED rp_opts

\* The loop body on an available command: _handle_available(y, after), which
\* run_command calls outside any try.
HandleAvailable ==
    /\ rp_state = "handling"
    /\ LowerWord(rp_line.first) = "available"
    /\ \E outcome \in AvailableOutcomes :
          LET r == _handle_available(rp_line.rest, outcome)
          IN  /\ rp_opts' = r.opts
              /\ rp_said' = r.said
              /\ rp_state' = IF r.raised THEN "crashed" ELSE "prompt"
              /\ rp_line' = IF r.raised THEN rp_line ELSE NoLine

NextRepl == PromptEnds \/ EmptyLine \/ ReadLine \/ HandleCommand \/ HandleAvailable

\* ========================================================= specifications
vars == <<clientVars, lineupVars, draftVars, pickVars, poolVars, schedVars, replVars, extractVars>>

\* The client: _retry and the accessors.
Init ==
    /\ InitClient
    /\ IdleLineup
    /\ IdleDraft
    /\ IdlePick
    /\ IdlePool
    /\ IdleSched
    /\ InitRepl
    /\ IdleExtract

Next ==
    /\ NextClient
    /\ UNCHANGED <<lineupVars, draftVars, pickVars, poolVars, schedVars, replVars, extractVars>>

Spec == Init /\ [][Next]_vars

\* suggest_lineup applied to every input of the bounded sets.
LineupInit ==
    /\ InitClient
    /\ InitLineup
    /\ IdleDraft
    /\ IdlePick
    /\ IdlePool
    /\ IdleSched
    /\ InitRepl
    /\ IdleExtract

LineupNext ==
    /\ SuggestLineup
    /\ UNCHANGED <<clientVars, draftVars, pickVars, poolVars, schedVars, replVars, extractVars>>

SpecLineup == LineupInit /\ [][LineupNext]_vars

\* tier_players applied to every input of the bounded sets.
DraftInit ==
    /\ InitClient
    /\ IdleLineup
    /\ InitDraft
    /\ IdlePick
    /\ IdlePool
    /\ IdleSched
    /\ InitRepl
    /\ IdleExtract

DraftNext ==
    /\ TierPlayers
    /\ UNCHANGED <<clientVars, lineupVars, pickVars, poolVars, schedVars, replVars, extractVars>>

SpecDraft == DraftInit /\ [][DraftNext]_vars

\* suggest_pick applied to every input of the bounded sets.
PickInit ==
    /\ InitClient
    /\ IdleLineup
    /\ IdleDraft
    /\ InitPick
    /\ IdlePool
    /\ IdleSched
    /\ InitRepl
    /\ IdleExtract

PickNext ==
    /\ SuggestPick
    /\ UNCHANGED <<clientVars, lineupVars, draftVars, poolVars, schedVars, replVars
                  , extractVars>>

SpecPick == PickInit /\ [][PickNext]_vars

\* available_players applied to every input of the bounded sets.
PoolInit ==
    /\ InitClient
    /\ IdleLineup
    /\ IdleDraft
    /\ IdlePick
    /\ InitPool
    /\ IdleSched
    /\ InitRepl
    /\ IdleExtract

PoolNext ==
    /\ AvailablePlayers
    /\ UNCHANGED <<clientVars, lineupVars, draftVars, pickVars, schedVars, replVars
                  , extractVars>>

SpecPool == PoolInit /\ [][PoolNext]_vars

\* The scheduler's jobs and the interactive thread on the shared client.
SchedInit ==
    /\ InitClient
    /\ IdleLineup
    /\ IdleDraft
    /\ IdlePick
    /\ IdlePool
    /\ InitSched
    /\ InitRepl
    /\ IdleExtract

SchedNext ==
    /\ NextSched
    /\ UNCHANGED <<clientVars, lineupVars, draftVars, pickVars, poolVars, replVars, extractVars>>

SpecSched == SchedInit /\ [][SchedNext]_vars

\* The interactive loop of run_command.
ReplInit ==
    /\ InitClient
    /\ IdleLineup
    /\ IdleDraft
    /\ IdlePick
    /\ IdlePool
    /\ IdleSched
    /\ InitRepl
    /\ IdleExtract

ReplNext ==
    /\ NextRepl
    /\ UNCHANGED <<clientVars, lineupVars, draftVars, pickVars, poolVars, schedVars
                  , extractVars>>

SpecRepl == ReplInit /\ [][ReplNext]_vars

\* The extractors applied to every combination of kinds.
ExtractInit ==
    /\ InitClient
    /\ IdleLineup
    /\ IdleDraft
    /\ IdlePick
    /\ IdlePool
    /\ IdleSched
    /\ InitRepl
    /\ InitExtract

ExtractNext ==
    /\ CallExtractor
    /\ UNCHANGED <<clientVars, lineupVars, draftVars, pickVars, poolVars, schedVars, replVars>>

SpecExtract == ExtractInit /\ [][ExtractNext]_vars

\* ================================================================ claims
AccessorNames == SimpleAccessors \cup {"settings", "get_draft_status"}

\* C2: a failure whose text holds an auth marker ends _retry on that very
\* attempt: the original failure is raised, nothing is slept after it and fn
\* is not invoked again.
C2_AuthFailsFast ==
    (last_err.some /\ LooksAuth(last_err.text)) =>
        /\ pc = "idle"
        /\ out = Reraised(last_err.text)
        /\ lastev = "raised"
        /\ nsleeps = calls - 1

C2_Witness ==
    /\ acc = "_retry"
    /\ last_err = [some |-> TRUE, text |-> TxtAuth]
    /\ calls = 1
    /\ nsleeps = 0
    /\ out.kind = "api_error"

\* C3 (as stated): every sleep d has base_sleep <= d <= max_sleep.
C3_Original ==
    (slept # -1) => (10 * base_sleep <= slept /\ slept <= 10 * max_sleep)

\* C3 (amended): a success after transient failures is returned by _retry, and
\* every sleep d has 0.7 * min(base_sleep, max_sleep) <= d <= 1.3 * max_sleep.
C3_SleepWithinJitteredBounds ==
    /\ (slept # -1) =>
          /\ JitterLo * Min(base_sleep, max_sleep) <= slept
          /\ slept <= JitterHi * max_sleep
    /\ (acc = "_retry" /\ lastev = "ok") =>
          /\ pc = "idle"
          /\ out = Returned("payload")

C3_Witness ==
    /\ acc = "_retry"
    /\ out.kind = "return"
    /\ seen = {"temp"}
    /\ nsleeps >= 1
    /\ slept < 10 * base_sleep

\* C4: with tries >= 1 and only non-auth failures, _retry calls fn at most
\* tries times and raises YahooClientError carrying the description, uri and
\* detail parsed from the last failure.
C4_ExhaustionRaisesNormalized ==
    /\ (pc = "retry") => calls < tries
    /\ (/\ pc = "idle"
        /\ acc = "_retry"
        /\ tries >= 1
        /\ last_err.some
        /\ lastev # "ok"
        /\ ~LooksAuth(last_err.text)) =>
          /\ 1 <= calls
          /\ calls <= tries
          /\ out.kind = "YahooClientError"
          /\ out.val = _parse_yahoo_error(last_err.text).desc
          /\ out.uri = _parse_yahoo_error(last_err.text).uri
          /\ out.detail = _parse_yahoo_error(last_err.text).detail

C4_Witness ==
    /\ acc = "_retry"
    /\ pc = "idle"
    /\ tries = MaxTries
    /\ calls = MaxTries
    /\ last_err = [some |-> TRUE, text |-> TxtJsonTemp]
    /\ out.kind = "YahooClientError"
    /\ out.uri = "/league/settings"

\* C5: a completed accessor call returned a payload (fetched or cached),
\* failed with the API's auth failure, or failed with YahooClientError.
C5_AccessorOutcomes ==
    (pc = "idle" /\ acc \in AccessorNames) =>
        out.kind \in {"return", "cached", "api_error", "YahooClientError"}

\* C6: the settings cache holds a payload only if that payload is predraft, a
\* cached payload is served only within ttl_sec of its fetch, and a settings()
\* call that is not served from the cache fetches from the API.
C6_SettingsCache ==
    /\ (settings_cache.has /\ Truthy(settings_cache.data)) =>
          DraftStatusLower(settings_cache.data) = "predraft"
    /\ (acc = "settings" /\ out.kind = "cached") =>
          t_call - settings_cache.ts < ttl_sec
    /\ (pc = "idle" /\ acc = "settings") =>
          (out.kind = "cached" \/ calls >= 1)

\* C7: for every slot name of the slots map, FLEX included, the lineup holds
\* at most slots[s] entries in slot s, and no entry in a slot the map lacks.
C7_SlotCountsRespected ==
    lu_done =>
        /\ \A s \in DOMAIN lu_slots :
              Cardinality({k \in 1..Len(lu_out) : lu_out[k].slot = s}) <= lu_slots[s]
        /\ \A k \in 1..Len(lu_out) : lu_out[k].slot \in DOMAIN lu_slots

C7_Witness ==
    /\ lu_done
    /\ Len(lu_features) = 3
    /\ \A k \in 1..3 : lu_features[k].pos = "RB"
    /\ lu_slots = [k \in {"RB", "FLEX"} |-> 1]
    /\ Len(lu_out) = 2
    /\ lu_out[2].slot = "FLEX"

\* C8 (as stated): no two players of one tier, neighbours or not, have the
\* earlier one more than 1.8 above the later one.
C8_Original ==
    tp_done =>
        \A t \in 1..Len(tp_out) : \A a, b \in 1..Len(tp_out[t]) :
            a < b => tp_out[t][a].proj - tp_out[t][b].proj <= TierDrop

\* C8 (amended): no two players that are neighbours in a tier have the earlier
\* one more than 1.8 above the later one.
C8_NeighboursWithinDrop ==
    tp_done =>
        \A t \in 1..Len(tp_out) : \A a \in 1..(Len(tp_out[t]) - 1) :
            tp_out[t][a].proj - tp_out[t][a + 1].proj <= TierDrop

C8_Witness ==
    /\ tp_done
    /\ \E t \in 1..Len(tp_out) :
          /\ Len(tp_out[t]) = 3
          /\ tp_out[t][1].proj - tp_out[t][3].proj > TierDrop

\* The tiers laid end to end, each player with the index of its tier.
RECURSIVE FlatTiers(_, _)
FlatTiers(tiers, t) ==
    IF t > Len(tiers) THEN <<>>
    ELSE [k \in 1..Len(tiers[t]) |-> [p |-> tiers[t][k], tier |-> t]]
             \o FlatTiers(tiers, t + 1)

FlatAt(tiers, pos) ==
    LET AtPos(x) == x.p.pos = pos IN SelectSeq(FlatTiers(tiers, 1), AtPos)

\* C9: the tiers partition the pool; every tier is non-empty, of one position
\* and in non-increasing projection order; within a position the players come
\* in descending order and two neighbours of that order are in different tiers
\* exactly when the drop between them exceeds 1.8; 20, 18, 10 give three tiers.
C9_TiersPartitionByDrop ==
    tp_done =>
        LET flat == FlatTiers(tp_out, 1)
        IN  /\ Len(flat) = Len(tp_pool)
            /\ \A k \in 1..Len(tp_pool) : \E m \in 1..Len(flat) : flat[m].p = tp_pool[k]
            /\ \A t \in 1..Len(tp_out) :
                  /\ tp_out[t] # <<>>
                  /\ \A a, b \in 1..Len(tp_out[t]) :
                        /\ tp_out[t][a].pos = tp_out[t][b].pos
                        /\ a < b => tp_out[t][a].proj >= tp_out[t][b].proj
            /\ \A pos \in DraftPositions :
                  LET fp == FlatAt(tp_out, pos)
                  IN  \A k \in 1..(Len(fp) - 1) :
                        /\ fp[k].p.proj >= fp[k + 1].p.proj
                        /\ (fp[k].tier # fp[k + 1].tier)
                              <=> (fp[k].p.proj - fp[k + 1].p.proj > TierDrop)
            /\ (\E pos \in DraftPositions :
                    tp_pool = <<[player_id |-> 1, pos |-> pos, proj |-> 200],
                                [player_id |-> 2, pos |-> pos, proj |-> 180],
                                [player_id |-> 3, pos |-> pos, proj |-> 100]>>)
                  => tp_out = <<<<tp_pool[1]>>, <<tp_pool[2]>>, <<tp_pool[3]>>>>

C9_Witness ==
    /\ tp_done
    /\ Len(tp_pool) = 3
    /\ \A k \in 1..3 : tp_pool[k].pos = "RB"
    /\ tp_pool[1].proj = 100 /\ tp_pool[2].proj = 200 /\ tp_pool[3].proj = 180
    /\ Len(tp_out) = 3
    /\ tp_out[1][1].player_id = 2

\* C1: no two rows yielded by available_players have the same player_id.
C1_UniquePlayerIds ==
    (ap_done /\ ap_out.kind = "rows") =>
        \A a, b \in 1..Len(ap_out.rows) :
            (a # b /\ ap_out.rows[a].player_id # None)
                => ap_out.rows[a].player_id # ap_out.rows[b].player_id

\* C10: with sort POWN the ownership percentage is non-increasing along the
\* rows yielded, whatever the search, position and limit.
C10_PownNonIncreasing ==
    (ap_done /\ ap_out.kind = "rows" /\ ap_args.sort = "pown") =>
        \A k \in 1..(Len(ap_out.rows) - 1) :
            OwnFloat(ap_out.rows[k].pown) >= OwnFloat(ap_out.rows[k + 1].pown)

C10_Witness ==
    /\ ap_done
    /\ ap_args.sort = "pown"
    /\ ap_args.limit = -1
    /\ ap_api["RB"].kind = "return"
    /\ Len(ap_api["RB"].val) = 2
    /\ ap_api["RB"].val[1].item = Player2
    /\ ap_api["RB"].val[2].item = Player1
    /\ Len(ap_out.rows) >= 2
    /\ ap_out.rows[1].player_id = "100"
    /\ ap_out.rows[2].player_id = "200"

\* C16: when every failure is a non-auth failure that does not look temporary,
\* _retry stops at the first index i with i >= 2 and i >= tries - 2 (5 calls
\* with tries = 6) without sleeping after that attempt and raises the
\* normalized error; when every failure looks temporary it makes tries calls.
C16_StopsEarlyUnlessTemporary ==
    /\ (pc = "retry" /\ seen = {"other"}) => i <= Max(2, tries - 2)
    /\ (pc = "idle" /\ seen = {"other"} /\ out.kind = "YahooClientError" /\ tries >= 3) =>
          /\ calls = Max(2, tries - 2) + 1
          /\ (tries = DefaultTries => calls = 5)
          /\ nsleeps = calls - 1
          /\ lastev = "raised"
          /\ out = YahooClientError(last_err.text)
    /\ (pc = "idle" /\ seen = {"temp"} /\ out.kind = "YahooClientError") => calls = tries

C16_Witness ==
    /\ acc = "_retry"
    /\ pc = "idle"
    /\ tries = DefaultTries
    /\ seen = {"other"}
    /\ calls = 5
    /\ nsleeps = 4
    /\ lastev = "raised"
    /\ out.kind = "YahooClientError"

\* C19: every sleep of _retry is followed by a further call of fn: when _retry
\* has ended, the last thing it did was not a sleep.
C19_NoSleepAfterLastAttempt ==
    pc = "idle" => lastev # "sleep"

\* C15: with include_waivers, a waiver entry whose player_id equals that of an
\* entry collected in the free-agent pass is not added: that player appears
\* once in the rows (when nothing is filtered out, and never more than once),
\* with availability FA and never W.
RowsWithId(rows, pid) == {k \in 1..Len(rows) : rows[k].player_id = pid}

C15_WaiverDuplicateDropped ==
    (/\ ap_done
     /\ ap_out.kind = "rows"
     /\ ap_args.include_waivers
     /\ ap_api["waivers"].kind = "return") =>
        LET fa == CollectFA(PositionsOf(ap_args.position), ap_api, <<>>, <<>>).pool
            wv == _coerce_player_dicts(ap_api["waivers"].val)
            rows == ap_out.rows
        IN  \A w \in 1..Len(wv) :
              (/\ PlayerId(wv[w]) # None
               /\ \E k \in 1..Len(fa) : PlayerId(fa[k].item) = PlayerId(wv[w])) =>
                  /\ \A k \in RowsWithId(rows, PlayerId(wv[w])) : rows[k].avail = "FA"
                  /\ Cardinality(RowsWithId(rows, PlayerId(wv[w]))) <= 1
                  /\ (ap_args.search = None /\ ap_args.limit < 0) =>
                        Cardinality(RowsWithId(rows, PlayerId(wv[w]))) = 1

\* C17: a free-agent call failing with a temporary-looking YahooClientError
\* contributes no rows while the remaining positions and the waiver wire are
\* still fetched and yielded; a non-temporary YahooClientError propagates and
\* no row is yielded.
TempFailure(o) == o.kind = "YahooClientError" /\ _looks_temporary(o.val)

Propagates(o) == o.kind # "return" /\ ~TempFailure(o)

ReturnedCount(ps) ==
    LET RECURSIVE Sum(_)
        Sum(k) == IF k = 0 THEN 0
                  ELSE Sum(k - 1) + (IF ap_api[ps[k]].kind = "return"
                                     THEN Len(ap_api[ps[k]].val) ELSE 0)
    IN  Sum(Len(ps))

C17_TemporaryFailureSkipsPosition ==
    LET ps == PositionsOf(ap_args.position)
        wvFine == ~ap_args.include_waivers \/ ~Propagates(ap_api["waivers"])
        calls_made == IF ap_args.include_waivers THEN Append(ps, "waivers") ELSE ps
        fa_rows == {k \in 1..Len(ap_out.rows) : ap_out.rows[k].avail = "FA"}
    IN  /\ (/\ ap_done
            /\ \E k \in 1..Len(ps) : TempFailure(ap_api[ps[k]])
            /\ \A k \in 1..Len(ps) : ~Propagates(ap_api[ps[k]])
            /\ wvFine) =>
               /\ ap_out.kind = "rows"
               /\ ap_out.fetched = calls_made
               /\ (ap_args.search = None /\ ap_args.limit < 0) =>
                     Cardinality(fa_rows) = ReturnedCount(ps)
               /\ (ap_args.include_waivers /\ ap_api["waivers"].kind = "return"
                   /\ ReturnedCount(ps) = 0 /\ ap_args.search = None
                   /\ ap_args.position = None /\ ap_args.limit < 0) =>
                     \A w \in 1..Len(ap_api["waivers"].val) :
                        LET pid == PlayerId(ap_api["waivers"].val[w].item)
                        IN  pid # None =>
                              \E k \in 1..Len(ap_out.rows) :
                                 /\ ap_out.rows[k].player_id = pid
                                 /\ ap_out.rows[k].avail = "W"
        /\ \A k \in 1..Len(ps) :
              (/\ ap_done
               /\ ap_api[ps[k]].kind = "YahooClientError"
               /\ ~_looks_temporary(ap_api[ps[k]].val)
               /\ \A j \in 1..(k - 1) : ~Propagates(ap_api[ps[j]])) =>
                  /\ ap_out.kind = "YahooClientError"
                  /\ ap_out.rows = <<>>
                  /\ ap_out.fetched = SubSeq(ps, 1, k)

C17_Witness ==
    /\ ap_done
    /\ ap_args.position = None
    /\ ap_args.include_waivers
    /\ TempFailure(ap_api["RB"])
    /\ ap_api["WR"].kind = "return" /\ Len(ap_api["WR"].val) = 1
    /\ ap_out.kind = "rows"
    /\ ap_out.fetched = Append(AllPositions, "waivers")
    /\ \E k \in 1..Len(ap_out.rows) : ap_out.rows[k].avail = "FA"
    /\ \E k \in 1..Len(ap_out.rows) : ap_out.rows[k].avail = "W"

\* C14: for features whose position is never "FLEX", the single pass of
\* suggest_lineup assigns the same (player, slot) pairs as filling each
\* position's slots with that position's highest scorers and then FLEX with
\* the highest-scoring remaining RB/WR/TE; no player is in FLEX while a slot
\* of their own position is free, and no unplaced RB/WR/TE player has a
\* strictly higher score than a player placed in FLEX.
RankedBefore(a, b) ==
    \/ LineupScore(lu_features[a]) > LineupScore(lu_features[b])
    \/ LineupScore(lu_features[a]) = LineupScore(lu_features[b]) /\ a < b

PhaseOne ==
    {a \in 1..Len(lu_features) :
        /\ lu_features[a].pos \in DOMAIN lu_slots
        /\ Cardinality({b \in 1..Len(lu_features) :
                           /\ lu_features[b].pos = lu_features[a].pos
                           /\ RankedBefore(b, a)}) < lu_slots[lu_features[a].pos]}

FlexCandidates ==
    {a \in 1..Len(lu_features) : a \notin PhaseOne /\ lu_features[a].pos \in FlexPositions}

PhaseTwo ==
    {a \in FlexCandidates :
        /\ "FLEX" \in DOMAIN lu_slots
        /\ Cardinality({b \in FlexCandidates : RankedBefore(b, a)}) < lu_slots["FLEX"]}

TwoPhasePairs ==
    {<<lu_features[a].player_id, lu_features[a].pos>> : a \in PhaseOne}
        \cup {<<lu_features[a].player_id, "FLEX">> : a \in PhaseTwo}

LineupPairs == {<<lu_out[k].player_id, lu_out[k].slot>> : k \in 1..Len(lu_out)}

NoFlexFeature == \A a \in 1..Len(lu_features) : lu_features[a].pos # "FLEX"

Unplaced ==
    {a \in 1..Len(lu_features) :
        \A k \in 1..Len(lu_out) : lu_out[k].player_id # lu_features[a].player_id}

C14_SinglePassIsTwoPhase ==
    (lu_done /\ NoFlexFeature) =>
        /\ LineupPairs = TwoPhasePairs
        /\ Len(lu_out) = Cardinality(LineupPairs)
        /\ \A a \in 1..Len(lu_features) :
              (<<lu_features[a].player_id, "FLEX">> \in LineupPairs
               /\ lu_features[a].pos \in DOMAIN lu_slots) =>
                  Cardinality({k \in 1..Len(lu_out) : lu_out[k].slot = lu_features[a].pos})
                      = lu_slots[lu_features[a].pos]
        /\ \A u \in Unplaced : \A k \in 1..Len(lu_out) :
              (lu_features[u].pos \in FlexPositions /\ lu_out[k].slot = "FLEX") =>
                  LineupScore(lu_features[u]) <= lu_out[k].score

C14_Witness ==
    /\ lu_done
    /\ NoFlexFeature
    /\ \E k \in 1..Len(lu_out) : lu_out[k].slot = "FLEX"
    /\ \E k \in 1..Len(lu_out) : lu_out[k].slot = "RB"
    /\ \E u \in Unplaced : lu_features[u].pos \in FlexPositions
    /\ \E a, b \in 1..Len(lu_features) :
          /\ a < b
          /\ LineupScore(lu_features[a]) < LineupScore(lu_features[b])

\* C13: suggest_pick returns min(5, n) of the n candidates in non-increasing
\* order of score = proj + 2 / max(1, number of candidates of the same
\* position with proj >= 10) + (2.5 if my_roster_needs[pos] > 0 else 0.5)
\* - 0.02 * max(0, pick_num - adp_pick), and no candidate left out has a
\* strictly higher score than a returned one.
StatedScore(p) ==
    LET same == {k \in 1..Len(pk_available) :
                    pk_available[k].pos = p.pos /\ pk_available[k].proj >= 100}
        q == IF Cardinality(same) >= 1 THEN Cardinality(same) ELSE 1
        need == IF p.pos \in DOMAIN pk_needs /\ pk_needs[p.pos] > 0 THEN 10500 ELSE 2100
        pick == IF p.pick_num.has THEN p.pick_num.v ELSE 0
        adp == IF p.adp_pick.has THEN p.adp_pick.v ELSE 0
        reach == IF pick - adp > 0 THEN pick - adp ELSE 0
    IN  420 * p.proj + (8400 \div q) + need - 84 * reach

LeftOut == Range(pk_available) \ Range(pk_out)

C13_TopFiveByScore ==
    pk_done =>
        /\ Len(pk_out) = Min(5, Len(pk_available))
        /\ Range(pk_out) \subseteq Range(pk_available)
        /\ Cardinality(Range(pk_out)) = Len(pk_out)
        /\ \A k \in 1..(Len(pk_out) - 1) : StatedScore(pk_out[k]) >= StatedScore(pk_out[k + 1])
        /\ \A c \in LeftOut : \A k \in 1..Len(pk_out) : StatedScore(c) <= StatedScore(pk_out[k])

C13_Witness ==
    /\ pk_done
    /\ Len(pk_available) > 5
    /\ Len(pk_out) = 5
    /\ \E c \in LeftOut : StatedScore(c) < StatedScore(pk_out[5])
    /\ StatedScore(pk_out[1]) > StatedScore(pk_out[5])
    /\ \E a, b \in 1..Len(pk_available) :
          a < b /\ StatedScore(pk_available[a]) < StatedScore(pk_available[b])
    /\ \E k \in 1..Len(pk_available) : pk_available[k].proj = 100

\* C18: after every completed run of every_min_fetch the muted flag is true
\* exactly when the count of consecutive failures is at least 3, the interval
\* of the job is 15 minutes when muted and poll_min otherwise (15 minutes
\* exactly when muted, for a poll_min other than 15), and a run that
\* succeeded has left the count at 0.
C18_MutedTracksFailures ==
    th_pc["every_min_fetch"] = "idle" =>
        /\ sc_muted <=> sc_count >= 3
        /\ sc_interval = IF sc_muted THEN 15 ELSE sc_poll_min
        /\ sc_poll_min # 15 => (sc_interval = 15 <=> sc_muted)
        /\ sc_said = "ok" => sc_count = 0

C18_Witness ==
    /\ th_pc["every_min_fetch"] = "idle"
    /\ sc_runs >= 4
    /\ sc_poll_min = 5
    /\ sc_muted
    /\ sc_count = 4
    /\ sc_interval = 15

\* C20: under any interleaving of the threads that call the accessors of the
\* shared client, league() constructs the League handle at most once and
\* every caller gets the same handle.
C20_LeagueBuiltOnce ==
    /\ lg_built <= 1
    /\ Cardinality(lg_returned) <= 1

\* C12: every line read by the loop of run_command ends in leaving the loop
\* or returning to the prompt: no exception raised while a command is
\* handled, tokenizing the arguments of available included, escapes the loop.
C12_NoExceptionEscapes ==
    rp_state # "crashed"

\* C11: every extractor returns None or an empty value on missing or
\* malformed input and never raises, whatever the kinds of the values found
\* where a mapping, a list or a string is expected.
C11_ExtractorsNeverRaise ==
    ex_done => ex_out.raised = "none"
====
